---- MODULE Spec2Model ----
(***************************************************************************)
(* playwright-posthog: capture of PostHog events from intercepted requests *)
(* into a per-page log, and the polling matchers that read that log.       *)
(*                                                                         *)
(* JSON values are tagged records:                                         *)
(*   [t |-> "undef"], [t |-> "null"], [t |-> "bool", b |-> ...],           *)
(*   [t |-> "num", n |-> ...], [t |-> "str", s |-> ...],                   *)
(*   [t |-> "arr", a |-> <<v1, ..., vn>>],                                 *)
(*   [t |-> "obj", kv |-> << <<k1, v1>>, ..., <<kn, vn>> >>]               *)
(* Objects keep their keys in insertion order, as Object.entries does.     *)
(* String values inside payloads are at most one character long.           *)
(***************************************************************************)
EXTENDS Integers, Sequences, FiniteSets, TLC

\* ---------------------------------------------------------------- bounds
\* requests intercepted in a run of the capture path
MaxReqs == 2
\* last value of the clock
MaxTime == 3
\* requests intercepted in a run with a polling matcher
MaxPollReqs == 1
\* raw events in the batch, array or data of a payload handed to the extraction
MaxBatch == 2

\* ----------------------------------------------------------- JSON values
Undef == [t |-> "undef"]
JNull == [t |-> "null"]
JBool(b) == [t |-> "bool", b |-> b]
JNum(n) == [t |-> "num", n |-> n]
JStr(s) == [t |-> "str", s |-> s]
JArr(a) == [t |-> "arr", a |-> a]
JObj(kv) == [t |-> "obj", kv |-> kv]

\* JavaScript truthiness (ToBoolean)
Truthy(v) ==
  CASE v.t = "undef" -> FALSE
    [] v.t = "null" -> FALSE
    [] v.t = "bool" -> v.b
    [] v.t = "num" -> v.n # 0
    [] v.t = "str" -> v.s # ""
    [] OTHER -> TRUE

\* a || b
Or(a, b) == IF Truthy(a) THEN a ELSE b

\* typeof v
TypeOf(v) ==
  CASE v.t = "undef" -> "undefined"
    [] v.t = "bool" -> "boolean"
    [] v.t = "num" -> "number"
    [] v.t = "str" -> "string"
    [] OTHER -> "object"

IsArray(v) == v.t = "arr"

\* v == null (loose): true of null and undefined
IsNullish(v) == v.t \in {"undef", "null"}

\* Object.entries(v)
Entries(v) ==
  CASE v.t = "obj" -> v.kv
    [] v.t = "arr" -> [i \in 1..Len(v.a) |-> <<ToString(i - 1), v.a[i]>>]
    [] v.t = "str" -> IF v.s = "" THEN <<>> ELSE << <<"0", v>> >>
    [] OTHER -> <<>>

\* Object.keys(v)
Keys(v) == [i \in 1..Len(Entries(v)) |-> Entries(v)[i][1]]

\* v[k] for a value that is not null or undefined
Get(v, k) ==
  LET es == Entries(v)
      hits == {i \in 1..Len(es) : es[i][1] = k}
  IN IF hits = {} THEN Undef ELSE es[CHOOSE i \in hits : TRUE][2]

\* a === b for two values of which at least one is a primitive; two distinct
\* parsed containers are never the same reference
StrictEq(a, b) == a.t \notin {"arr", "obj"} /\ a = b

\* -------------------------------------------------- hog-watcher: matching
\* a comparison that lets the first mapping have keys the second lacks
RECURSIVE deepSubset(_, _)
deepSubset(a, b) ==
  IF StrictEq(a, b) THEN TRUE
  ELSE IF IsNullish(a) \/ IsNullish(b) THEN FALSE
  ELSE IF TypeOf(a) # TypeOf(b) THEN FALSE
  ELSE IF TypeOf(a) # "object" THEN FALSE
  ELSE IF IsArray(a) /\ IsArray(b) THEN
    /\ Len(a.a) = Len(b.a)
    /\ \A i \in 1..Len(a.a) : deepSubset(a.a[i], b.a[i])
  ELSE IF IsArray(a) \/ IsArray(b) THEN FALSE
  ELSE \A i \in 1..Len(Keys(b)) : deepSubset(Get(a, Keys(b)[i]), Get(b, Keys(b)[i]))

RECURSIVE deepEqual(_, _)
deepEqual(a, b) ==
  IF StrictEq(a, b) THEN TRUE
  ELSE IF IsNullish(a) \/ IsNullish(b) THEN FALSE
  ELSE IF TypeOf(a) # TypeOf(b) THEN FALSE
  ELSE IF TypeOf(a) # "object" THEN FALSE
  ELSE IF IsArray(a) /\ IsArray(b) THEN
    /\ Len(a.a) = Len(b.a)
    /\ \A i \in 1..Len(a.a) : deepEqual(a.a[i], b.a[i])
  ELSE IF IsArray(a) \/ IsArray(b) THEN FALSE
  ELSE
    /\ Len(Keys(a)) = Len(Keys(b))
    /\ \A i \in 1..Len(Keys(a)) : deepEqual(Get(a, Keys(a)[i]), Get(b, Keys(a)[i]))

\* a matcher that looks at actual before it looks at expected
ActualFirst(actual, expected) ==
  IF ~Truthy(actual) THEN FALSE
  ELSE IF ~Truthy(expected) \/ Len(Keys(expected)) = 0 THEN TRUE
  ELSE \A i \in 1..Len(Entries(expected)) :
         deepEqual(Get(actual, Entries(expected)[i][1]), Entries(expected)[i][2])

matchesProperties(actual, expected) ==
  IF ~Truthy(expected) \/ Len(Keys(expected)) = 0 THEN TRUE
  ELSE IF ~Truthy(actual) THEN FALSE
  ELSE \A i \in 1..Len(Entries(expected)) :
         deepEqual(Get(actual, Entries(expected)[i][1]), Entries(expected)[i][2])

\* some event of the sequence has exactly this name and properties that contain
\* the expected ones
HasMatch(events, eventName, expectedProperties) ==
  \E i \in 1..Len(events) :
    /\ events[i].event.t = "str"
    /\ events[i].event.s = eventName
    /\ matchesProperties(events[i].properties, expectedProperties)

\* ------------------------------------------- hog-watcher: normalization
CanonicalKeys == {"event", "e", "properties", "p", "timestamp", "ts", "distinct_id", "d"}

\* reading a property of null or undefined raises a TypeError
NormalizeThrows(rawEvent) == IsNullish(rawEvent)

\* the entries of rawEvent copied onto the event by the for-loop
ExtraEntries(rawEvent) ==
  SelectSeq(Entries(rawEvent), LAMBDA kv : kv[1] \notin CanonicalKeys)

\* a normalization that leaves missing properties undefined
normalizeBare(rawEvent, clk, oid) ==
  [event |-> Or(Get(rawEvent, "event"), Or(Get(rawEvent, "e"), JStr("unknown"))),
   properties |-> Or(Get(rawEvent, "properties"), Get(rawEvent, "p")),
   timestamp |-> Or(Get(rawEvent, "timestamp"), Or(Get(rawEvent, "ts"), JNum(clk))),
   distinct_id |-> Or(Get(rawEvent, "distinct_id"), Get(rawEvent, "d")),
   extra |-> ExtraEntries(rawEvent),
   oid |-> oid]

\* normalizeEvent(rawEvent) at clock value clk; oid is the identity of the
\* object it allocates
normalizeEvent(rawEvent, clk, oid) ==
  [event |-> Or(Get(rawEvent, "event"), Or(Get(rawEvent, "e"), JStr("unknown"))),
   properties |-> Or(Get(rawEvent, "properties"), Or(Get(rawEvent, "p"), JObj(<<>>))),
   timestamp |-> Or(Get(rawEvent, "timestamp"), Or(Get(rawEvent, "ts"), JNum(clk))),
   distinct_id |-> Or(Get(rawEvent, "distinct_id"), Get(rawEvent, "d")),
   extra |-> ExtraEntries(rawEvent),
   oid |-> oid]

\* for (const event of raws) events.push(normalizeEvent(event)):
\* the events pushed before the first element that raises, and whether one did
NormalizeEach(raws, clk, rid) ==
  LET bad == {i \in 1..Len(raws) : NormalizeThrows(raws[i])}
      n == IF bad = {} THEN Len(raws)
           ELSE (CHOOSE i \in bad : \A j \in bad : i <= j) - 1
  IN [threw |-> bad # {},
      events |-> [i \in 1..n |-> normalizeEvent(raws[i], clk, <<rid, i>>)]]

\* ----------------------------------------------------------- request bodies
\* A body is absent, or bytes that are either the UTF-8 text of a document or
\* its gzip compression; the text is valid JSON denoting json, or is not JSON.
NoBody == [enc |-> "absent", valid |-> FALSE, json |-> Undef]
PlainBody(v) == [enc |-> "plain", valid |-> TRUE, json |-> v]
GzipBody(v) == [enc |-> "gzip", valid |-> TRUE, json |-> v]
GarbageBody == [enc |-> "plain", valid |-> FALSE, json |-> Undef]
\* a body of zero bytes
EmptyBody == [enc |-> "empty", valid |-> FALSE, json |-> Undef]

PropsX1 == JObj(<< <<"x", JNum(1)>> >>)
RawA == JObj(<< <<"event", JStr("a")>>, <<"properties", PropsX1>>, <<"timestamp", JNum(7)>> >>)
RawUpperA == JObj(<< <<"event", JStr("A")>>, <<"timestamp", JNum(7)>> >>)

BatchBody == PlainBody(JObj(<< <<"batch", JArr(<<RawA, RawUpperA>>)>> >>))
\* a batch with an element that is not an object and one that is null
BrokenBatchBody == PlainBody(JObj(<< <<"batch", JArr(<<RawUpperA, JNum(5), JNull>>)>> >>))

Bodies ==
  { NoBody,
    GarbageBody,
    PlainBody(JNum(5)),
    PlainBody(RawA),
    GzipBody(RawA),
    BatchBody,
    BrokenBatchBody }

\* the bodies of the requests made while a matcher polls
PollBodies == {GarbageBody, PlainBody(RawA), BatchBody}

\* request.postDataJSON(): null without a body or with an empty one, else JSON.parse of the body
\* read as text, which raises on anything that is not JSON (gzip bytes included)
postDataJSON(body) ==
  IF body.enc \in {"absent", "empty"} THEN [threw |-> FALSE, value |-> JNull]
  ELSE IF body.enc = "plain" /\ body.valid THEN [threw |-> FALSE, value |-> body.json]
  ELSE [threw |-> TRUE, value |-> Undef]

\* JSON.parse(gunzipSync(buffer).toString('utf-8'))
gunzipJSON(body) ==
  IF body.enc = "gzip" /\ body.valid THEN [threw |-> FALSE, value |-> body.json]
  ELSE [threw |-> TRUE, value |-> Undef]

\* an extraction that applies every rule that fits, one after the other
ExtractEveryRule(request, clk, rid) ==
  LET parsed == postDataJSON(request)
      body == parsed.value
      none == [threw |-> FALSE, events |-> <<>>]
      r1 == IF Truthy(Get(body, "batch")) /\ IsArray(Get(body, "batch"))
            THEN NormalizeEach(Get(body, "batch").a, clk, rid) ELSE none
      r2 == IF IsArray(body) THEN NormalizeEach(body.a, clk, rid) ELSE none
      r3 == IF Truthy(Or(Get(body, "event"), Get(body, "e")))
            THEN NormalizeEach(<<body>>, clk, rid) ELSE none
      r4 == IF Truthy(Get(body, "data")) /\ IsArray(Get(body, "data"))
            THEN NormalizeEach(Get(body, "data").a, clk, rid) ELSE none
  IN IF parsed.threw THEN [threw |-> TRUE, events |-> <<>>]
     ELSE IF ~Truthy(body) THEN none
     ELSE [threw |-> r1.threw \/ r2.threw \/ r3.threw \/ r4.threw,
           events |-> r1.events \o r2.events \o r3.events \o r4.events]

\* an extraction that reports a request without a payload as one nameless event
ExtractSentinel(request, clk, rid) ==
  IF ~postDataJSON(request).threw /\ ~Truthy(postDataJSON(request).value)
  THEN NormalizeEach(<<JObj(<<>>)>>, clk, rid)
  ELSE [threw |-> postDataJSON(request).threw, events |-> <<>>]

\* the body of the try block of extractEventsFromRequest: the events pushed
\* onto the local array, and whether the block was left by an exception
ExtractTry(request, clk, rid) ==
  LET parsed == postDataJSON(request)
      body == parsed.value
  IN IF parsed.threw THEN [threw |-> TRUE, events |-> <<>>]
     ELSE IF ~Truthy(body) THEN [threw |-> FALSE, events |-> <<>>]
     ELSE IF Truthy(Get(body, "batch")) /\ IsArray(Get(body, "batch"))
       THEN NormalizeEach(Get(body, "batch").a, clk, rid)
     ELSE IF IsArray(body) THEN NormalizeEach(body.a, clk, rid)
     ELSE IF Truthy(Or(Get(body, "event"), Get(body, "e")))
       THEN NormalizeEach(<<body>>, clk, rid)
     ELSE IF Truthy(Get(body, "data")) THEN
       IF IsArray(Get(body, "data"))
         THEN NormalizeEach(Get(body, "data").a, clk, rid)
         ELSE NormalizeEach(<<Get(body, "data")>>, clk, rid)
     ELSE [threw |-> FALSE, events |-> <<>>]

\* extractEventsFromRequest without its catch clause
ExtractRethrows(request, clk, rid) ==
  [threw |-> ExtractTry(request, clk, rid).threw, caught |-> FALSE,
   events |-> ExtractTry(request, clk, rid).events]

\* extractEventsFromRequest: the catch clause absorbs the exception and the
\* local array is returned as it stands
extractEventsFromRequest(request, clk, rid) ==
  [threw |-> FALSE, caught |-> ExtractTry(request, clk, rid).threw,
   events |-> ExtractTry(request, clk, rid).events]

\* utils.extractEventsFromBody: the prioritized rules; an element without a
\* usable name is dropped
HasName(raw) == ~IsNullish(raw) /\ Truthy(Or(Get(raw, "event"), Get(raw, "e")))

NormalizeNamed(raws, clk, rid) ==
  LET idx == SelectSeq([i \in 1..Len(raws) |-> i], LAMBDA i : HasName(raws[i]))
  IN [k \in 1..Len(idx) |-> normalizeEvent(raws[idx[k]], clk, <<rid, idx[k]>>)]

BatchOrArray(v, clk, rid) ==
  IF v.t = "obj" /\ IsArray(Get(v, "batch")) THEN NormalizeNamed(Get(v, "batch").a, clk, rid)
  ELSE IF IsArray(v) THEN NormalizeNamed(v.a, clk, rid)
  ELSE <<>>

extractEventsFromBody(body, clk, rid) ==
  IF body.t = "obj" /\ IsArray(Get(body, "batch")) THEN BatchOrArray(body, clk, rid)
  ELSE IF IsArray(body) THEN BatchOrArray(body, clk, rid)
  ELSE IF HasName(body) THEN <<normalizeEvent(body, clk, <<rid, 1>>)>>
  ELSE IF body.t = "obj" /\ Get(body, "data") # Undef THEN BatchOrArray(Get(body, "data"), clk, rid)
  ELSE <<>>

\* ------------------------------------------------------------------- URLs
\* a URL is the sequence of its characters
UrlIngest == <<"p","o","s","t","h","o","g",".","c","o","m","/","e","/">>
UrlCapture == <<"x",".","i","o","/","c","a","p","t","u","r","e">>
UrlOther == <<"x",".","i","o","/","h","o","m","e">>
Urls == {UrlIngest, UrlCapture, UrlOther}

\* url.includes(fragment)
Includes(url, fragment) ==
  \E i \in 1..(Len(url) - Len(fragment) + 1) :
    SubSeq(url, i, i + Len(fragment) - 1) = fragment

isPostHogRequest(url) ==
  \/ Includes(url, <<"/","e","/">>)
  \/ Includes(url, <<"/","c","a","p","t","u","r","e">>)
  \/ Includes(url, <<"/","b","a","t","c","h">>)
  \/ Includes(url, <<"/","s","/">>)

\* /posthog\.com\/(e|capture|batch|s)(\/|$|\?)/ matches somewhere in url
posthogIngestPattern(url) ==
  LET host == <<"p","o","s","t","h","o","g",".","c","o","m","/">>
      paths == { <<"e">>, <<"c","a","p","t","u","r","e">>, <<"b","a","t","c","h">>, <<"s">> }
  IN \E i \in 1..Len(url), path \in paths :
       LET j == i + Len(host) + Len(path)
       IN /\ j - 1 <= Len(url)
          /\ SubSeq(url, i, j - 1) = host \o path
          /\ (j = Len(url) + 1 \/ (j <= Len(url) /\ url[j] \in {"/", "?"}))

\* ------------------------------------------------------------------ state
Pages == {"P", "Q"}
Reqs == 1..MaxReqs

VARIABLES
  variant,     \* which page fixture is installed: "watcher" (index.ts, fixtures.ts)
               \* or "gunzip" (the fixture that decompresses the body itself)
  now,         \* Date.now()
  tracked,     \* the pages on which kHogEvents is defined
  routed,      \* the pages whose route handler is registered
  log,         \* log[p]: the array hogPage[kHogEvents] of page p
  req,         \* per request: handler position, its page, its local events
  microtasks,  \* handlers suspended at their await, in resumption order
  held,        \* the array last returned by getCapturedEvents to the test
  m,           \* the running toHaveFiredEvent call
  prevClear,   \* the page cleared by the step just taken, whether that was the first
               \* or a later clear of it in a row, and the length of its log before
               \* the first of them; NoClear after any other step
  history,     \* history[p]: the event sequences pushed onto log[p] since its last clear
  cleared,     \* the events that were in a log when it was cleared
  call         \* a call of a pure function: its arguments and, once made, its result

vars == <<variant, now, tracked, routed, log, req, microtasks, held, m, prevClear,
          history, cleared, call>>

\* st, page, events and conts are the handler's position, page, local array and
\* number of route.continue() calls; caught, n and behind record whether an
\* exception was absorbed on the way, how many events the handler pushed, and how
\* many handlers were suspended when this one was invoked
NewReq == [st |-> "new", page |-> "P", events |-> <<>>, conts |-> 0,
           caught |-> FALSE, n |-> 0, behind |-> 0]
NoClear == [page |-> "none", run |-> 0, had |-> 0]
NoHeld == [st |-> "none", page |-> "P", val |-> <<>>]
NoCall == [fn |-> "none"]
\* the fields of m from scans on are records of the call's history: its scans and
\* suspensions, whether a scan saw a match, whether the log held one at the call,
\* whether the page was cleared during a suspension and scanned since, the config
\* argument, whether a timer fired after its due time, and the clock value at
\* which a match was first appended during a suspension (-1: never)
IdleMatcher ==
  [pc |-> "idle", page |-> "P", eventName |-> "", expected |-> Undef,
   timeout |-> Undef, pollInterval |-> Undef, startTime |-> 0, wakeAt |-> 0,
   foundEvent |-> <<>>, pass |-> FALSE, notPass |-> FALSE,
   scans |-> 0, sleeps |-> 0, sawMatch |-> FALSE, matchAtCall |-> FALSE,
   clearedSince |-> FALSE, scannedSince |-> FALSE,
   config |-> Undef, late |-> FALSE, matchAt |-> -1]

Init ==
  /\ variant \in {"watcher", "gunzip"}
  /\ now = 0
  /\ tracked = {"P"}
  /\ routed = {"P"}
  /\ log = [p \in Pages |-> <<>>]
  /\ req = [r \in Reqs |-> NewReq]
  /\ microtasks = <<>>
  /\ held = NoHeld
  /\ m = IdleMatcher
  /\ prevClear = NoClear
  /\ history = [p \in Pages |-> <<>>]
  /\ cleared = {}
  /\ call = NoCall

\* requests are numbered in the order in which the route handler is invoked
Unhandled == {r \in Reqs : req[r].st = "new"}
NextReq == CHOOSE r \in Unhandled : \A q \in Unhandled : r <= q

SameContent(e1, e2) ==
  /\ e1.event = e2.event
  /\ e1.properties = e2.properties
  /\ e1.timestamp = e2.timestamp
  /\ e1.distinct_id = e2.distinct_id
  /\ e1.extra = e2.extra

\* a push that skips an event equal in content to one already in the array
PushDistinct(array, events) ==
  array \o SelectSeq(events, LAMBDA e : \A i \in 1..Len(array) : ~SameContent(array[i], e))

\* a handler that goes on to route.continue() without pushing
NoPush(array, events) == array

\* hogPage[kHogEvents].push(...events)
Push(array, events) == array \o events

\* ------------------------------------------------------------ page fixture
\* the page fixture up to its await: hogPage[kHogEvents] = [] and the call of
\* hogPage.route(...)
SetupPage(p) ==
  /\ p \notin tracked
  /\ tracked' = tracked \cup {p}
  /\ log' = [log EXCEPT ![p] = <<>>]
  /\ prevClear' = NoClear
  /\ UNCHANGED <<call, variant, routed, now, req, microtasks, held, m, history, cleared>>

\* the await of hogPage.route(...) completes: the handler is registered and
\* use(hogPage) hands the page to the test
RouteRegistered(p) ==
  /\ p \in tracked \ routed
  /\ routed' = routed \cup {p}
  /\ prevClear' = NoClear
  /\ UNCHANGED <<call, variant, tracked, now, log, req, microtasks, held, m, history, cleared>>

\* ------------------------------------------------- route handler (watcher)
\* a handler that captures from every request, whatever its URL
InterceptAny(p, url, body) ==
  /\ variant = "watcher"
  /\ Unhandled # {}
  /\ p \in routed
  /\ ~isPostHogRequest(url)
  /\ LET r == NextReq
         events == extractEventsFromRequest(body, now, r).events
     IN /\ req' = [req EXCEPT ![r] =
                     [NewReq EXCEPT !.st = "continued", !.page = p, !.conts = 1,
                                    !.n = Len(events), !.behind = Len(microtasks)]]
        /\ log' = [log EXCEPT ![p] = Push(log[p], events)]
  /\ prevClear' = NoClear
  /\ UNCHANGED <<call, variant, routed, now, tracked, microtasks, held, m, history, cleared>>

\* route('**/*') handler, URL not a PostHog endpoint: straight to route.continue()
InterceptOther(p, url, body) ==
  /\ variant = "watcher"
  /\ Unhandled # {}
  /\ p \in routed
  /\ ~isPostHogRequest(url)
  /\ req' = [req EXCEPT ![NextReq] =
               [NewReq EXCEPT !.st = "continued", !.page = p, !.conts = 1,
                              !.behind = Len(microtasks)]]
  /\ prevClear' = NoClear
  /\ UNCHANGED <<call, variant, routed, now, tracked, log, microtasks, held, m, history, cleared>>

\* route('**/*') handler, PostHog endpoint: runs extractEventsFromRequest to its
\* return and suspends at the await; an exception leaving it rejects the handler
InterceptTracked(p, url, body) ==
  /\ variant = "watcher"
  /\ Unhandled # {}
  /\ p \in routed
  /\ isPostHogRequest(url)
  /\ LET r == NextReq
         ex == extractEventsFromRequest(body, now, r)
     IN IF ex.threw
        THEN /\ req' = [req EXCEPT ![r] =
                          [NewReq EXCEPT !.st = "rejected", !.page = p,
                                         !.behind = Len(microtasks)]]
             /\ UNCHANGED microtasks
        ELSE /\ req' = [req EXCEPT ![r] =
                          [NewReq EXCEPT !.st = "awaiting", !.page = p, !.events = ex.events,
                                         !.caught = ex.caught, !.behind = Len(microtasks)]]
             /\ microtasks' = Append(microtasks, r)
  /\ prevClear' = NoClear
  /\ UNCHANGED <<call, variant, routed, now, tracked, log, held, m, history, cleared>>

\* a scheduler that runs the newest continuation first
NewestFirst(queue) == queue[Len(queue)]

\* the handler whose continuation runs next
NextToResume(queue) == Head(queue)

\* the continuation after the await: push onto the page's current array, then
\* route.continue()
Resume ==
  /\ microtasks # <<>>
  /\ LET r == NextToResume(microtasks)
         p == req[r].page
     IN /\ log' = [log EXCEPT ![p] = Push(log[p], req[r].events)]
        /\ history' = [history EXCEPT ![p] = Append(history[p], req[r].events)]
        /\ req' = [req EXCEPT ![r] = [@ EXCEPT !.st = "continued", !.events = <<>>,
                                                !.conts = @ + 1, !.n = Len(req[r].events)]]
        /\ microtasks' = SelectSeq(microtasks, LAMBDA q : q # r)
        /\ m' = IF /\ m.pc = "sleeping" /\ m.page = p /\ m.matchAt = -1
                    /\ HasMatch(req[r].events, m.eventName, m.expected)
                 THEN [m EXCEPT !.matchAt = now] ELSE m
  /\ prevClear' = NoClear
  /\ UNCHANGED <<call, variant, routed, now, tracked, held, cleared>>

\* -------------------------------------------------- route handler (gunzip)
\* route(posthogIngestPattern) handler: no await before route.continue()
InterceptGunzip(p, url, body) ==
  /\ variant = "gunzip"
  /\ Unhandled # {}
  /\ p \in routed
  /\ posthogIngestPattern(url)
  /\ LET r == NextReq
         parsed == gunzipJSON(body)
         pushed == body.enc # "absent" /\ ~parsed.threw
         events == IF pushed THEN extractEventsFromBody(parsed.value, now, r) ELSE <<>>
     IN /\ log' = [log EXCEPT ![p] = IF pushed THEN Push(log[p], events) ELSE log[p]]
        /\ history' = [history EXCEPT ![p] = IF pushed THEN Append(history[p], events)
                                             ELSE history[p]]
        /\ req' = [req EXCEPT ![r] =
                     [NewReq EXCEPT !.st = "continued", !.page = p, !.conts = 1,
                                    !.caught = (body.enc # "absent" /\ parsed.threw),
                                    !.n = Len(events)]]
  /\ prevClear' = NoClear
  /\ UNCHANGED <<call, variant, routed, now, tracked, microtasks, held, m, cleared>>

\* ------------------------------------------------------ utility functions
\* a read that finds one array shared by all pages
EventsOfAnyPage(p) == log["P"] \o log["Q"]

\* hogPage[kHogEvents] || []
EventsOf(p) == IF p \in tracked THEN log[p] ELSE <<>>

Range(events) == {events[i] : i \in 1..Len(events)}

\* a clear that removes the oldest event only
DropFirst(array) == IF array = <<>> THEN <<>> ELSE Tail(array)

\* the array clearCapturedEvents(page) assigns to hogPage[kHogEvents]
ClearedArray(array) == <<>>

\* a clear that attaches a log to a page that has none
clearCreatesLog(p) ==
  /\ tracked' = tracked \cup {p}
  /\ log' = [log EXCEPT ![p] = <<>>]
  /\ history' = [history EXCEPT ![p] = <<>>]
  /\ prevClear' = IF prevClear.page = p THEN [prevClear EXCEPT !.run = 2]
                  ELSE [page |-> p, run |-> 1, had |-> Len(EventsOf(p))]
  /\ UNCHANGED <<call, variant, routed, now, req, microtasks, held, m, cleared>>

\* clearCapturedEvents(page): a page with a log gets a new empty array; the
\* array handed out earlier keeps its contents
clearCapturedEvents(p) ==
  /\ IF p \in tracked
     THEN /\ log' = [log EXCEPT ![p] = ClearedArray(log[p])]
          /\ history' = [history EXCEPT ![p] = <<>>]
          /\ cleared' = cleared \cup Range(log[p])
          /\ held' = IF held.st = "alias" /\ held.page = p
                     THEN [st |-> "detached", page |-> p, val |-> log[p]]
                     ELSE held
     ELSE UNCHANGED <<log, history, cleared, held>>
  /\ prevClear' = IF prevClear.page = p THEN [prevClear EXCEPT !.run = 2]
                  ELSE [page |-> p, run |-> 1, had |-> Len(EventsOf(p))]
  /\ m' = IF m.pc = "sleeping" /\ m.page = p THEN [m EXCEPT !.clearedSince = TRUE] ELSE m
  /\ UNCHANGED <<call, variant, routed, now, tracked, req, microtasks>>

\* getCapturedEvents(page): the page's own array, or a fresh empty one
getCapturedEvents(p) ==
  /\ held.st = "none"
  /\ held' = IF p \in tracked THEN [st |-> "alias", page |-> p, val |-> <<>>]
             ELSE [st |-> "fresh", page |-> p, val |-> <<>>]
  /\ prevClear' = NoClear
  /\ UNCHANGED <<call, variant, routed, now, tracked, log, req, microtasks, m, history, cleared>>

\* what the test reads through the array it holds
HeldValue == IF held.st = "alias" THEN log[held.page] ELSE held.val

\* the test calls pop() on the array it got from getCapturedEvents: when that
\* array is the page's own, the log loses its last event
PopHeld ==
  /\ held.st # "none"
  /\ HeldValue # <<>>
  /\ IF held.st = "alias"
     THEN /\ log' = [log EXCEPT ![held.page] = SubSeq(@, 1, Len(@) - 1)]
          /\ UNCHANGED held
     ELSE /\ held' = [held EXCEPT !.val = SubSeq(@, 1, Len(@) - 1)]
          /\ UNCHANGED log
  /\ prevClear' = NoClear
  /\ UNCHANGED <<call, variant, routed, now, tracked, req, microtasks, m, history, cleared>>

\* ---------------------------------------------------------------- matchers
DefaultTimeout == 2000
DefaultPollInterval == 100
DEFAULT_CONFIG ==
  JObj(<< <<"timeout", JNum(DefaultTimeout)>>, <<"pollInterval", JNum(DefaultPollInterval)>> >>)

\* { ...DEFAULT_CONFIG, ...config }[key]: an own key of config wins, whatever its value
ResolveConfig(config, key) ==
  IF ~IsNullish(config) /\ \E i \in 1..Len(Keys(config)) : Keys(config)[i] = key
  THEN Get(config, key)
  ELSE Get(DEFAULT_CONFIG, key)

\* a loop condition that gives up one clock unit before the timeout
EarlyDeadline(elapsed, timeout) == timeout.t = "num" /\ elapsed + 1 < timeout.n

\* a loop condition that keeps polling one clock unit past the timeout
LateDeadline(elapsed, timeout) == timeout.t = "num" /\ elapsed <= timeout.n + 1

\* Date.now() - startTime < timeout; a comparison with undefined is false
LoopCond(elapsed, timeout) == timeout.t = "num" /\ elapsed < timeout.n

\* the delay setTimeout(resolve, pollInterval) arms: anything below 1 counts as 1
TimerDelay(pollInterval) ==
  IF pollInterval.t = "num" /\ pollInterval.n >= 1 THEN pollInterval.n ELSE 1

\* a predicate that looks at the name only
NameOnly(event, eventName, expectedProperties) == event.event = JStr(eventName)

\* the predicate handed to events.find
FindPredicate(event, eventName, expectedProperties) ==
  LET nameMatches == event.event = JStr(eventName)
      propsMatch == matchesProperties(event.properties, expectedProperties)
  IN nameMatches /\ propsMatch

\* events.find(...): the first event satisfying the predicate, as a sequence of
\* length one, or the empty sequence for undefined
Find(events, eventName, expectedProperties) ==
  LET hits == {i \in 1..Len(events) : FindPredicate(events[i], eventName, expectedProperties)}
  IN IF hits = {} THEN <<>>
     ELSE <<events[CHOOSE i \in hits : \A j \in hits : i <= j]>>

\* one pass through the while loop of toHaveFiredEvent, from the test of its
\* condition to the next suspension or to the return
LoopIteration(mm) ==
  IF LoopCond(now - mm.startTime, mm.timeout)
  THEN LET events == EventsOf(mm.page)
           foundEvent == Find(events, mm.eventName, mm.expected)
           scanned == [mm EXCEPT !.scans = @ + 1,
                                 !.scannedSince = mm.clearedSince,
                                 !.sawMatch = @ \/ HasMatch(events, mm.eventName, mm.expected)]
       IN IF foundEvent # <<>>
          THEN [scanned EXCEPT !.pc = "returned", !.foundEvent = foundEvent, !.pass = TRUE]
          ELSE [scanned EXCEPT !.pc = "sleeping", !.sleeps = @ + 1,
                               !.wakeAt = now + TimerDelay(mm.pollInterval)]
  ELSE [mm EXCEPT !.pc = "returned", !.pass = (mm.foundEvent # <<>>)]

MatcherUnchanged ==
  UNCHANGED <<call, variant, routed, tracked, log, req, microtasks, held, history, cleared>>

\* toHaveFiredEvent(page, eventName, expectedProperties, config) up to its first
\* suspension or its return
toHaveFiredEvent(p, eventName, expectedProperties, config) ==
  /\ m.pc = "idle"
  /\ m' = LoopIteration(
            [IdleMatcher EXCEPT !.page = p, !.eventName = eventName,
                                !.expected = expectedProperties,
                                !.timeout = ResolveConfig(config, "timeout"),
                                !.pollInterval = ResolveConfig(config, "pollInterval"),
                                !.startTime = now, !.config = config,
                                !.matchAtCall = HasMatch(EventsOf(p), eventName, expectedProperties)])
  /\ prevClear' = NoClear
  /\ UNCHANGED now
  /\ MatcherUnchanged

\* the timer of the suspension fires and the loop goes round again
Wake ==
  /\ m.pc = "sleeping"
  /\ now >= m.wakeAt
  /\ m' = LoopIteration([m EXCEPT !.late = @ \/ now > m.wakeAt])
  /\ prevClear' = NoClear
  /\ UNCHANGED now
  /\ MatcherUnchanged

\* a message that never takes the "properties didn't match" branch
messageNamesOnly(mm) ==
  LET events == EventsOf(mm.page)
      kind == IF mm.pass THEN "butItDid"
              ELSE IF Len(events) = 0 THEN "noEvents"
              ELSE "nameDidNotMatch"
  IN [kind |-> kind,
      eventName |-> mm.eventName,
      expected |-> mm.expected,
      waited |-> IF mm.pass THEN Undef ELSE mm.timeout,
      total |-> IF mm.pass THEN 0 ELSE Len(events),
      listed |-> <<>>,
      names |-> IF kind = "nameDidNotMatch"
                THEN [i \in 1..Len(events) |-> events[i].event] ELSE <<>>]

\* what result.message() returns when it is called in the current state: the
\* branch it takes, the timeout and total it reports, the properties it lists
\* under "properties didn't match" and the names it lists as captured
message(mm) ==
  LET events == EventsOf(mm.page)
      eventNames == [i \in 1..Len(events) |-> events[i].event]
      matchingNameEvents == SelectSeq(events, LAMBDA e : e.event = JStr(mm.eventName))
      kind == IF mm.pass THEN "butItDid"
              ELSE IF Len(events) = 0 THEN "noEvents"
              ELSE IF Len(matchingNameEvents) > 0 THEN "propertiesDidNotMatch"
              ELSE "nameDidNotMatch"
  IN [kind |-> kind,
      eventName |-> mm.eventName,
      expected |-> mm.expected,
      waited |-> IF mm.pass THEN Undef ELSE mm.timeout,
      total |-> IF mm.pass THEN 0 ELSE Len(events),
      listed |-> IF kind = "propertiesDidNotMatch"
                 THEN [i \in 1..Len(matchingNameEvents) |-> matchingNameEvents[i].properties]
                 ELSE <<>>,
      names |-> IF kind = "nameDidNotMatch" THEN eventNames ELSE <<>>]

\* the test runner calls result.message() of a returned call
CallMessage ==
  /\ m.pc \in {"returned", "notReturned"}
  /\ call' = [fn |-> "message", result |-> message(m)]
  /\ prevClear' = NoClear
  /\ UNCHANGED <<variant, routed, now, tracked, log, req, microtasks, held, m, history, cleared>>

\* { pass, message } as toHaveFiredEvent returns it
Result(mm) == [pass |-> mm.pass, message |-> message(mm)]

\* a negative matcher that hands the result on as it is
SameResult(mm) == Result(mm)

\* { pass: !result.pass, message: result.message }
NotResult(mm) == [pass |-> ~Result(mm).pass, message |-> Result(mm).message]

\* notToHaveFiredEvent: the call above was made by it, and it negates the result
notToHaveFiredEvent ==
  /\ m.pc = "returned"
  /\ m' = [m EXCEPT !.pc = "notReturned", !.notPass = NotResult(m).pass]
  /\ prevClear' = NoClear
  /\ UNCHANGED now
  /\ MatcherUnchanged

\* the clock advances while a call is suspended; synchronous code takes no time,
\* and a timer fires at its delay or later
Tick ==
  /\ m.pc = "sleeping"
  /\ now < MaxTime
  /\ now' = now + 1
  /\ prevClear' = NoClear
  /\ UNCHANGED m
  /\ MatcherUnchanged

\* a count test that passes when at least count events were captured
atLeastCount(actualCount, count) ==
  IF count = Undef THEN actualCount > 0 ELSE actualCount >= count.n

\* count === undefined ? actualCount > 0 : actualCount === count
countPass(actualCount, count) ==
  IF count = Undef THEN actualCount > 0 ELSE JNum(actualCount) = count

\* toHaveCapturedEvents(page, count): synchronous, reads the length of the page's
\* array once; mark alternates from one call to the next
toHaveCapturedEvents(p, count) ==
  /\ LET events == EventsOf(p)
         actualCount == Len(events)
     IN call' = [fn |-> "toHaveCapturedEvents", page |-> p, count |-> count,
                 actualCount |-> actualCount,
                 pass |-> countPass(actualCount, count),
                 mark |-> IF call.fn = "toHaveCapturedEvents" THEN 1 - call.mark ELSE 0]
  /\ prevClear' = NoClear
  /\ UNCHANGED <<variant, routed, now, tracked, log, req, microtasks, held, m, history, cleared>>

\* ---------------------------------------------------------- specifications
EventNames == {"a", "A"}
ExpectedProps == {Undef, PropsX1}
Config(timeout, pollInterval) ==
  JObj(<< <<"timeout", JNum(timeout)>>, <<"pollInterval", JNum(pollInterval)>> >>)
Configs == {Config(-1, 1), Config(0, 1), Config(1, 1), Config(2, 1)}

\* the capture path and the utility functions
Next ==
  \/ \E p \in Pages, url \in Urls, body \in Bodies : InterceptOther(p, url, body)
  \/ \E p \in Pages, url \in Urls, body \in Bodies : InterceptTracked(p, url, body)
  \/ \E p \in Pages, url \in Urls, body \in Bodies : InterceptGunzip(p, url, body)
  \/ Resume
  \/ \E p \in Pages : clearCapturedEvents(p)
  \/ \E p \in Pages : getCapturedEvents(p)

Spec == Init /\ [][Next]_vars

\* the event loop runs every queued continuation
FairSpec == Spec /\ WF_vars(Resume)

\* one page with the route('**/*') fixture, its requests, a clear, and a polling matcher
Passed == [NewReq EXCEPT !.st = "continued", !.conts = 1]

InitPoll ==
  /\ variant = "watcher"
  /\ now = 0
  /\ tracked = {"P"}
  /\ routed = {"P"}
  /\ log = [p \in Pages |-> <<>>]
  /\ req = [r \in Reqs |-> IF r <= MaxPollReqs THEN NewReq ELSE Passed]
  /\ microtasks = <<>>
  /\ held = NoHeld
  /\ m = IdleMatcher
  /\ prevClear = NoClear
  /\ history = [p \in Pages |-> <<>>]
  /\ cleared = {}
  /\ call = NoCall

NextPoll ==
  \/ \E url \in Urls, body \in PollBodies : InterceptTracked("P", url, body)
  \/ Resume
  \/ clearCapturedEvents("P")
  \/ \E eventName \in EventNames, expected \in ExpectedProps, config \in Configs :
       toHaveFiredEvent("P", eventName, expected, config)
  \/ Wake
  \/ notToHaveFiredEvent
  \/ Tick

SpecPoll == InitPoll /\ [][NextPoll]_vars

\* the clock advances and the event loop fires every timer that is due
FairPoll == SpecPoll /\ WF_vars(Wake) /\ WF_vars(Tick)

\* a matcher called on an empty log with each shape of the config argument, the
\* clock moving from one timer to the next
EmptyLogs == [p \in Pages |-> <<>>]

ConfigInputs ==
  { Undef,
    JObj(<<>>),
    JObj(<< <<"timeout", JNum(300)>> >>),
    JObj(<< <<"pollInterval", JNum(50)>> >>),
    JObj(<< <<"timeout", JNum(300)>>, <<"pollInterval", JNum(50)>> >>),
    JObj(<< <<"timeout", Undef>> >>),
    JObj(<< <<"pollInterval", Undef>> >>),
    JObj(<< <<"timeout", JNum(300)>>, <<"pollInterval", Undef>> >>) }

InitConfig ==
  /\ variant = "watcher"
  /\ now = 0
  /\ tracked = {"P"}
  /\ routed = {"P"}
  /\ log = EmptyLogs
  /\ req = [r \in Reqs |-> Passed]
  /\ microtasks = <<>>
  /\ held = NoHeld
  /\ m = IdleMatcher
  /\ prevClear = NoClear
  /\ history = EmptyLogs
  /\ cleared = {}
  /\ call = NoCall

\* nothing else runs: the clock reaches the due time of the pending timer
Elapse ==
  /\ m.pc = "sleeping"
  /\ now < m.wakeAt
  /\ now' = m.wakeAt
  /\ prevClear' = NoClear
  /\ UNCHANGED m
  /\ MatcherUnchanged

NextConfig ==
  \/ \E config \in ConfigInputs : toHaveFiredEvent("P", "a", Undef, config)
  \/ Elapse
  \/ Wake

SpecConfig == InitConfig /\ [][NextConfig]_vars

\* one call of matchesProperties on each pair of an actual and an expected value
Obj1(k, v) == JObj(<< <<k, v>> >>)
Obj2(k1, v1, k2, v2) == JObj(<< <<k1, v1>>, <<k2, v2>> >>)

Actuals ==
  { Undef,
    JNull,
    JObj(<<>>),
    Obj1("x", JNum(1)),
    Obj1("x", JStr("1")),
    Obj1("x", JNull),
    Obj1("y", JNum(2)),
    Obj2("x", JNum(1), "y", JNum(2)),
    Obj1("x", JArr(<<JNum(1)>>)),
    Obj1("x", Obj1("y", JNum(1))),
    Obj1("x", Obj2("y", JNum(1), "z", JNum(2))) }

Expecteds ==
  { Undef,
    JNull,
    JObj(<<>>),
    Obj1("x", JNum(1)),
    Obj1("x", JNull),
    Obj1("x", Undef),
    Obj2("y", JNum(2), "x", JNum(1)),
    Obj1("x", JArr(<<JNum(1)>>)),
    Obj1("x", JArr(<<JNum(1), JNum(1)>>)),
    Obj1("x", Obj1("y", JNum(1))) }

InitMatch ==
  /\ variant = "watcher"
  /\ now = 0
  /\ tracked = {"P"}
  /\ routed = {"P"}
  /\ log = EmptyLogs
  /\ req = [r \in Reqs |-> Passed]
  /\ microtasks = <<>>
  /\ held = NoHeld
  /\ m = IdleMatcher
  /\ prevClear = NoClear
  /\ history = EmptyLogs
  /\ cleared = {}
  /\ call \in [fn : {"matchesProperties"}, actual : Actuals, expected : Expecteds,
               done : {FALSE}, result : {FALSE}]

CallMatchesProperties ==
  /\ call.fn = "matchesProperties"
  /\ ~call.done
  /\ call' = [call EXCEPT !.done = TRUE,
                          !.result = matchesProperties(call.actual, call.expected)]
  /\ UNCHANGED <<variant, routed, now, tracked, log, req, microtasks, held, m, prevClear,
                 history, cleared>>

NextMatch == CallMatchesProperties

SpecMatch == InitMatch /\ [][NextMatch]_vars

\* one call of deepEqual(a, b): a is a value read from an event's properties (a
\* parsed JSON value, or undefined for a missing key), b a value written by the test
ActualValues ==
  { Undef, JNull, JNum(1), JNum(2), JStr("1"), JBool(TRUE),
    JArr(<<>>), JArr(<<JNum(1)>>), JArr(<<JNum(1), JNum(2)>>), JArr(<<JNum(2), JNum(1)>>),
    JObj(<<>>), Obj1("y", JNum(1)), Obj1("0", JNum(1)),
    Obj2("y", JNum(1), "z", JNum(2)), Obj2("z", JNum(2), "y", JNum(1)) }

ExpectedValues ==
  ActualValues \cup { Obj1("y", Undef), Obj2("y", JNum(1), "z", Undef) }

InitDeep ==
  /\ variant = "watcher"
  /\ now = 0
  /\ tracked = {"P"}
  /\ routed = {"P"}
  /\ log = EmptyLogs
  /\ req = [r \in Reqs |-> Passed]
  /\ microtasks = <<>>
  /\ held = NoHeld
  /\ m = IdleMatcher
  /\ prevClear = NoClear
  /\ history = EmptyLogs
  /\ cleared = {}
  /\ call \in [fn : {"deepEqual"}, a : ActualValues, b : ExpectedValues,
               done : {FALSE}, result : {FALSE}]

CallDeepEqual ==
  /\ call.fn = "deepEqual"
  /\ ~call.done
  /\ call' = [call EXCEPT !.done = TRUE, !.result = deepEqual(call.a, call.b)]
  /\ UNCHANGED <<variant, routed, now, tracked, log, req, microtasks, held, m, prevClear,
                 history, cleared>>

NextDeep == CallDeepEqual

SpecDeep == InitDeep /\ [][NextDeep]_vars

\* one call of extractEventsFromRequest on a request whose body is the JSON text
\* of a payload: every shape the extraction distinguishes, filled with up to
\* MaxBatch raw events, named in full, named in shorthand, or without a name
RawEvA == Obj2("event", JStr("a"), "properties", PropsX1)
RawEvB == Obj1("event", JStr("b"))
RawShort == Obj2("e", JStr("c"), "p", PropsX1)
RawNameless == Obj1("properties", PropsX1)
RawEvents == {RawEvA, RawEvB, RawShort, RawNameless}

RawSeqs == UNION {[1..n -> RawEvents] : n \in 0..MaxBatch}

Payloads ==
  {Obj1("batch", JArr(raws)) : raws \in RawSeqs}
  \cup {JArr(raws) : raws \in RawSeqs}
  \cup {Obj1("data", JArr(raws)) : raws \in RawSeqs}
  \cup {Obj1("data", Obj1("batch", JArr(raws))) : raws \in RawSeqs}
  \cup {Obj2("batch", JArr(raws), "event", JStr("a")) : raws \in RawSeqs}
  \cup {Obj2("batch", JArr(raws), "data", JArr(<<RawEvB>>)) : raws \in RawSeqs}
  \cup {Obj2("event", JStr("a"), "data", JArr(raws)) : raws \in RawSeqs}
  \cup RawEvents
  \cup {JObj(<<>>)}

NoResult == [threw |-> FALSE, caught |-> FALSE, events |-> <<>>]

InitExtract ==
  /\ variant = "watcher"
  /\ now = 0
  /\ tracked = {"P"}
  /\ routed = {"P"}
  /\ log = EmptyLogs
  /\ req = [r \in Reqs |-> Passed]
  /\ microtasks = <<>>
  /\ held = NoHeld
  /\ m = IdleMatcher
  /\ prevClear = NoClear
  /\ history = EmptyLogs
  /\ cleared = {}
  /\ call \in [fn : {"extractEventsFromRequest"}, payload : Payloads,
               done : {FALSE}, result : {NoResult}]

CallExtract ==
  /\ call.fn = "extractEventsFromRequest"
  /\ ~call.done
  /\ call' = [call EXCEPT !.done = TRUE,
                          !.result = extractEventsFromRequest(PlainBody(call.payload), now, 1)]
  /\ UNCHANGED <<variant, routed, now, tracked, log, req, microtasks, held, m, prevClear,
                 history, cleared>>

NextExtract == CallExtract

SpecExtract == InitExtract /\ [][NextExtract]_vars

\* the capture path when every request comes without a body or with an empty one
EmptyBodies == {NoBody, EmptyBody}

NextEmpty ==
  \/ \E p \in Pages, url \in Urls, body \in EmptyBodies : InterceptOther(p, url, body)
  \/ \E p \in Pages, url \in Urls, body \in EmptyBodies : InterceptTracked(p, url, body)
  \/ \E p \in Pages, url \in Urls, body \in EmptyBodies : InterceptGunzip(p, url, body)
  \/ Resume
  \/ \E p \in Pages : clearCapturedEvents(p)
  \/ \E p \in Pages : getCapturedEvents(p)

SpecEmpty == Init /\ [][NextEmpty]_vars /\ WF_vars(Resume)

\* one page with the route('**/*') fixture, its requests, clears, and count
\* assertions on the tracked and on the untracked page
Counts == {Undef} \cup {JNum(k) : k \in 0..MaxBatch}

NextCount ==
  \/ \E url \in Urls, body \in PollBodies : InterceptTracked("P", url, body)
  \/ Resume
  \/ \E p \in Pages : clearCapturedEvents(p)
  \/ \E p \in Pages, count \in Counts : toHaveCapturedEvents(p, count)

SpecCount == InitPoll /\ [][NextCount]_vars

\* the event loop runs every queued continuation
FairCount == SpecCount /\ WF_vars(Resume)

\* the classifier applied to a URL, and requests for that URL on either fixture
UrlQuery == <<"p","o","s","t","h","o","g",".","c","o","m","/","e","?","v">>
UrlBare == <<"p","o","s","t","h","o","g",".","c","o","m","/","s">>
UrlBatch == <<"x",".","i","o","/","b","a","t","c","h">>
UrlSession == <<"x",".","i","o","/","s","/">>
UrlEmpty == <<>>
UrlMalformed == <<":","/","/","%">>
UrlSamples == Urls \cup {UrlQuery, UrlBare, UrlBatch, UrlSession, UrlEmpty, UrlMalformed}

UrlBodies == {GarbageBody, PlainBody(RawA), GzipBody(RawA)}

InitUrl ==
  /\ variant \in {"watcher", "gunzip"}
  /\ now = 0
  /\ tracked = {"P"}
  /\ routed = {"P"}
  /\ log = EmptyLogs
  /\ req = [r \in Reqs |-> NewReq]
  /\ microtasks = <<>>
  /\ held = NoHeld
  /\ m = IdleMatcher
  /\ prevClear = NoClear
  /\ history = EmptyLogs
  /\ cleared = {}
  /\ call \in [fn : {"isPostHogRequest"}, url : UrlSamples, done : {FALSE}, result : {FALSE}]

CallIsPostHogRequest ==
  /\ call.fn = "isPostHogRequest"
  /\ ~call.done
  /\ call' = [call EXCEPT !.done = TRUE, !.result = isPostHogRequest(call.url)]
  /\ UNCHANGED <<variant, routed, now, tracked, log, req, microtasks, held, m, prevClear,
                 history, cleared>>

NextUrl ==
  \/ CallIsPostHogRequest
  \/ \E body \in UrlBodies : InterceptOther("P", call.url, body)
  \/ \E body \in UrlBodies : InterceptTracked("P", call.url, body)
  \/ \E body \in UrlBodies : InterceptGunzip("P", call.url, body)
  \/ Resume

SpecUrl == InitUrl /\ [][NextUrl]_vars

\* two pages, each set up by the page fixture, with their requests, clears and
\* count assertions
PageBodies == {PlainBody(RawA), GzipBody(RawA)}
PageCounts == {Undef, JNum(1)}

InitPages ==
  /\ variant \in {"watcher", "gunzip"}
  /\ now = 0
  /\ tracked = {}
  /\ routed = {}
  /\ log = EmptyLogs
  /\ req = [r \in Reqs |-> NewReq]
  /\ microtasks = <<>>
  /\ held = NoHeld
  /\ m = IdleMatcher
  /\ prevClear = NoClear
  /\ history = EmptyLogs
  /\ cleared = {}
  /\ call = NoCall

NextPages ==
  \/ \E p \in Pages : SetupPage(p)
  \/ \E p \in Pages : RouteRegistered(p)
  \/ \E p \in Pages, body \in PageBodies : InterceptTracked(p, UrlIngest, body)
  \/ \E p \in Pages, body \in PageBodies : InterceptGunzip(p, UrlIngest, body)
  \/ Resume
  \/ \E p \in Pages : clearCapturedEvents(p)
  \/ \E p \in Pages, count \in PageCounts : toHaveCapturedEvents(p, count)

SpecPages == InitPages /\ [][NextPages]_vars

\* one page with the route('**/*') fixture: its requests, clears, an array
\* obtained from getCapturedEvents and changed by the test, and count assertions
NextSnapshot ==
  \/ \E url \in Urls, body \in PollBodies : InterceptTracked("P", url, body)
  \/ Resume
  \/ clearCapturedEvents("P")
  \/ \E p \in Pages : getCapturedEvents(p)
  \/ PopHeld
  \/ \E count \in Counts : toHaveCapturedEvents("P", count)

SpecSnapshot == InitPoll /\ [][NextSnapshot]_vars

\* a page sends the same JSON document in successive requests, uncompressed in
\* the odd ones and gzip-compressed in the even ones, on either fixture; call
\* holds the document
Documents ==
  { RawA, RawUpperA, RawEvA, RawEvB, RawShort,
    JArr(<<RawA>>), JArr(<<RawEvA, RawEvB>>), JArr(<<RawUpperA, RawShort>>),
    JObj(<< <<"batch", JArr(<<RawA, RawUpperA>>)>> >>),
    JObj(<< <<"batch", JArr(<<RawEvA>>)>> >>),
    JObj(<< <<"batch", JArr(<<RawShort, RawEvB>>)>> >>),
    JObj(<< <<"data", JArr(<<RawA>>)>> >>) }

SentBody(r, document) == IF r % 2 = 1 THEN PlainBody(document) ELSE GzipBody(document)

InitDecode ==
  /\ variant \in {"watcher", "gunzip"}
  /\ now = 0
  /\ tracked = {"P"}
  /\ routed = {"P"}
  /\ log = EmptyLogs
  /\ req = [r \in Reqs |-> NewReq]
  /\ microtasks = <<>>
  /\ held = NoHeld
  /\ m = IdleMatcher
  /\ prevClear = NoClear
  /\ history = EmptyLogs
  /\ cleared = {}
  /\ call \in [fn : {"send"}, document : Documents]

NextDecode ==
  \/ Unhandled # {} /\ InterceptTracked("P", UrlIngest, SentBody(NextReq, call.document))
  \/ Unhandled # {} /\ InterceptGunzip("P", UrlIngest, SentBody(NextReq, call.document))
  \/ Resume

SpecDecode == InitDecode /\ [][NextDecode]_vars

\* every operation of the library on one page with the route('**/*') fixture
InitFrame == Init /\ variant = "watcher"

NextFrame ==
  \/ InterceptOther("P", UrlOther, BatchBody)
  \/ InterceptTracked("P", UrlIngest, BatchBody)
  \/ Resume
  \/ clearCapturedEvents("P")
  \/ getCapturedEvents("P")
  \/ toHaveFiredEvent("P", "A", PropsX1, Config(1, 1))
  \/ Wake
  \/ notToHaveFiredEvent
  \/ Tick
  \/ CallMessage
  \/ toHaveCapturedEvents("P", Undef)

SpecFrame == InitFrame /\ [][NextFrame]_vars

\* normalizeEvent applied to a raw event put together from one choice of entries
\* for each canonical field and for the other keys
NameEntries ==
  { <<>>, << <<"event", JStr("a")>> >>, << <<"e", JStr("c")>> >>,
    << <<"event", JStr("a")>>, <<"e", JStr("c")>> >>,
    << <<"event", JStr("")>>, <<"e", JStr("c")>> >> }
PropertiesEntries ==
  { <<>>, << <<"properties", PropsX1>> >>, << <<"p", PropsX1>> >>,
    << <<"properties", JNull>>, <<"p", PropsX1>> >> }
TimestampEntries ==
  { <<>>, << <<"timestamp", JNum(7)>> >>, << <<"ts", JNum(8)>> >>,
    << <<"timestamp", JNum(0)>> >> }
DistinctIdEntries ==
  { <<>>, << <<"distinct_id", JStr("u")>> >>, << <<"d", JStr("v")>> >>,
    << <<"distinct_id", JNum(0)>> >> }
OtherEntries == { <<>>, << <<"uuid", JStr("k")>>, <<"$set", PropsX1>> >> }

RawInputs ==
  { JObj(n \o pr \o ts \o id \o other) :
      n \in NameEntries, pr \in PropertiesEntries, ts \in TimestampEntries,
      id \in DistinctIdEntries, other \in OtherEntries }

InitNormalize ==
  /\ variant = "watcher"
  /\ now = 0
  /\ tracked = {"P"}
  /\ routed = {"P"}
  /\ log = EmptyLogs
  /\ req = [r \in Reqs |-> Passed]
  /\ microtasks = <<>>
  /\ held = NoHeld
  /\ m = IdleMatcher
  /\ prevClear = NoClear
  /\ history = EmptyLogs
  /\ cleared = {}
  /\ call \in [fn : {"normalizeEvent"}, raw : RawInputs, done : {FALSE}, result : {Undef}]

CallNormalizeEvent ==
  /\ call.fn = "normalizeEvent"
  /\ ~call.done
  /\ call' = [call EXCEPT !.done = TRUE, !.result = normalizeEvent(call.raw, now, <<1, 1>>)]
  /\ UNCHANGED <<variant, routed, now, tracked, log, req, microtasks, held, m, prevClear,
                 history, cleared>>

NextNormalize == CallNormalizeEvent

SpecNormalize == InitNormalize /\ [][NextNormalize]_vars

\* ---------------------------------------------------------- debug logging
\* process.env.DEBUG: unset, or a string
EnvValues ==
  { Undef, JStr(""), JStr("true"), JStr("1"), JStr("posthog-playwright"),
    JStr("playwright-posthog"), JStr("false") }

isDebugEnabled(env) == env \in {JStr("true"), JStr("1"), JStr("posthog-playwright")}

\* a JSON.stringify that raises on a mapping with an undefined value
StringifyThrowsOnUndefined(v) ==
  v.t = "obj" /\ \E i \in 1..Len(v.kv) : v.kv[i][2] = Undef

\* JSON.stringify(v) raises on a BigInt and on a circular structure, and on
\* nothing that is a JSON value or undefined
StringifyThrows(v) == FALSE

\* extractEventsFromRequest with its debug statements: the "Request body" line
\* stringifies the body inside the try block; traced records whether a line was
\* written to the console
extractEventsFromRequestDebug(request, clk, rid, debug) ==
  LET parsed == postDataJSON(request)
      logged == debug /\ ~parsed.threw /\ Truthy(parsed.value)
      try == IF logged /\ StringifyThrows(parsed.value)
             THEN [threw |-> TRUE, events |-> <<>>]
             ELSE ExtractTry(request, clk, rid)
  IN [threw |-> FALSE, caught |-> try.threw, events |-> try.events, traced |-> debug]

\* toHaveFiredEvent up to its loop: the "Checking for event" line stringifies
\* the expected properties when they are given; an exception there rejects the call
toHaveFiredEventEntry(expectedProperties, debug) ==
  [rejected |-> debug /\ Truthy(expectedProperties) /\ StringifyThrows(expectedProperties),
   traced |-> debug]

DebugBodies == Bodies \cup {EmptyBody}
DebugExpecteds ==
  { Undef, JObj(<<>>), PropsX1, Obj1("y", Undef), Obj2("y", JNum(1), "z", Undef) }

InitDebug ==
  /\ variant = "watcher"
  /\ now = 0
  /\ tracked = {"P"}
  /\ routed = {"P"}
  /\ log = EmptyLogs
  /\ req = [r \in Reqs |-> Passed]
  /\ microtasks = <<>>
  /\ held = NoHeld
  /\ m = IdleMatcher
  /\ prevClear = NoClear
  /\ history = EmptyLogs
  /\ cleared = {}
  /\ call \in [fn : {"extractEventsFromRequest"}, env : EnvValues, body : DebugBodies,
                done : {FALSE}, result : {Undef}]
          \cup [fn : {"toHaveFiredEvent"}, env : EnvValues, expected : DebugExpecteds,
                 done : {FALSE}, result : {Undef}]

CallExtractDebug ==
  /\ call.fn = "extractEventsFromRequest"
  /\ ~call.done
  /\ call' = [call EXCEPT !.done = TRUE,
                          !.result = extractEventsFromRequestDebug(
                                       call.body, now, 1, isDebugEnabled(call.env))]
  /\ UNCHANGED <<variant, routed, now, tracked, log, req, microtasks, held, m, prevClear,
                 history, cleared>>

CallMatcherDebug ==
  /\ call.fn = "toHaveFiredEvent"
  /\ ~call.done
  /\ call' = [call EXCEPT !.done = TRUE,
                          !.result = toHaveFiredEventEntry(call.expected,
                                                           isDebugEnabled(call.env))]
  /\ UNCHANGED <<variant, routed, now, tracked, log, req, microtasks, held, m, prevClear,
                 history, cleared>>

NextDebug == CallExtractDebug \/ CallMatcherDebug

SpecDebug == InitDebug /\ [][NextDebug]_vars

\* a page Q that was never set up with tracking, next to the tracked page P and
\* its requests: the public operations called on Q
NextUntracked ==
  \/ InterceptTracked("P", UrlIngest, BatchBody)
  \/ Resume
  \/ getCapturedEvents("Q")
  \/ clearCapturedEvents("Q")
  \/ \E count \in Counts : toHaveCapturedEvents("Q", count)
  \/ \E config \in Configs : toHaveFiredEvent("Q", "a", Undef, config)
  \/ Wake
  \/ Tick
  \/ CallMessage

SpecUntracked == InitPoll /\ [][NextUntracked]_vars

\* ----------------------------------------------------------------- claims
RECURSIVE Flatten(_)
Flatten(seqs) == IF seqs = <<>> THEN <<>> ELSE Head(seqs) \o Flatten(Tail(seqs))

Logged == UNION {Range(log[p]) : p \in Pages} \cup cleared
Returned == m.pc \in {"returned", "notReturned"}

\* C1: with no clear in between, what getCapturedEvents returns is exactly the
\* concatenation of the event sequences the handlers appended, in append order,
\* nothing reordered, dropped or de-duplicated.
C1_SnapshotIsConcatenation ==
  \A p \in Pages :
    /\ EventsOf(p) = Flatten(history[p])
    /\ (held.st = "alias" /\ held.page = p) => HeldValue = Flatten(history[p])

\* two requests appended, one of them two events, and two entries equal in content
C1_Witness ==
  \E p \in Pages :
    /\ held.st = "alias" /\ held.page = p
    /\ Len(history[p]) >= 2
    /\ \E k \in 1..Len(history[p]) : Len(history[p][k]) = 2
    /\ \E i, j \in 1..Len(HeldValue) : i < j /\ SameContent(HeldValue[i], HeldValue[j])

\* C2: the events of a request whose handler was invoked earlier precede those of
\* a request whose handler was invoked later, and the events of one request stay
\* in payload order, however the two handlers interleave at their await.
C2_InterceptionOrder ==
  \A p \in Pages : \A i, j \in 1..Len(log[p]) :
    i < j => \/ log[p][i].oid[1] < log[p][j].oid[1]
             \/ (log[p][i].oid[1] = log[p][j].oid[1] /\ log[p][i].oid[2] < log[p][j].oid[2])

\* a handler invoked while an earlier one was suspended, both now in the log
C2_Witness ==
  \E p \in Pages, r \in Reqs :
    /\ req[r].st = "continued" /\ req[r].behind > 0
    /\ \E i, j \in 1..Len(log[p]) : i < j /\ log[p][i].oid[1] < r /\ log[p][j].oid[1] = r

\* C3: once clearCapturedEvents has returned, no read of the page's log and no
\* later scan of a running toHaveFiredEvent sees an event that was in the log
\* before the clear.
C3_ClearHidesEarlierEvents ==
  [][ /\ \A p \in Pages : Range(EventsOf(p))' \cap cleared' = {}
      /\ (m'.scans > m.scans) => (Range(m'.foundEvent) \cap cleared' = {}) ]_vars

\* a matching event was cleared while the call was suspended, and a later scan
\* did not pass on it
C3_Witness ==
  /\ m.scannedSince
  /\ ~m.pass
  /\ \E e \in cleared : HasMatch(<<e>>, m.eventName, m.expected)

\* C4: a clearCapturedEvents(page) that directly follows a clearCapturedEvents of
\* the same page changes nothing.
C4_ClearIdempotent ==
  [][ (prevClear'.run = 2) =>
        /\ log' = log /\ tracked' = tracked /\ held' = held /\ req' = req
        /\ microtasks' = microtasks /\ history' = history /\ cleared' = cleared ]_vars

\* two clears in a row of a page whose log held two or more events
C4_Witness == prevClear.run = 2 /\ prevClear.page \in tracked /\ prevClear.had >= 2

\* C5: every request delivered to the route handler is continued, and exactly once.
C5_ContinuedExactlyOnce ==
  \A r \in Reqs : /\ [](req[r].conts <= 1)
                  /\ (req[r].st # "new") ~> (req[r].conts = 1)

\* a tracked request with an undecodable body, continued
C5_Witness == \E r \in Reqs : req[r].caught /\ req[r].conts = 1

\* C6: no body makes the handler raise, and a request intercepted after a failed
\* one has all its events in the log.
C6_FailureIsAbsorbed ==
  \A r \in Reqs :
    /\ req[r].st # "rejected"
    /\ req[r].st = "continued" => Cardinality({e \in Logged : e.oid[1] = r}) = req[r].n

\* a request whose body failed to decode, and a later one with events in the log
C6_Witness ==
  \E r1, r2 \in Reqs :
    /\ r1 < r2
    /\ req[r1].caught /\ req[r1].st = "continued"
    /\ req[r2].st = "continued" /\ ~req[r2].caught /\ req[r2].n > 0

\* C7: a request whose decoding or normalization raised appends no event.
C7_FailureAppendsNothing ==
  \A r \in Reqs : req[r].caught => (req[r].events = <<>> /\ req[r].n = 0)

\* C8: toHaveFiredEvent passes only if one of its scans saw an event with exactly
\* the expected name and properties containing the expected ones.
C8_PassOnlyOnMatch == m.pass => m.sawMatch

\* a pass on expected properties with an event of another name in the log
C8_Witness ==
  /\ m.pass /\ m.expected = PropsX1
  /\ \E i \in 1..Len(log[m.page]) : log[m.page][i].event # JStr(m.eventName)

\* C9: a scan that finds a match returns pass=true at once, and a match already
\* in the log at the call gives pass=true with no suspension.
C9_FoundReturnsAtOnce ==
  /\ (m.foundEvent # <<>>) => (Returned /\ m.pass)
  /\ (Returned /\ m.matchAtCall) => (m.pass /\ m.sleeps = 0)

\* C10: the call decides 'expired' only right after a scan that found no match:
\* when it returns pass=false after a suspension, the log holds no matching
\* event at that moment, so an event appended during the last suspension is found.
C10_ExpiredOnlyAfterScan ==
  [][ (m.pc = "sleeping" /\ m'.pc = "returned" /\ ~m'.pass) =>
        ~HasMatch(EventsOf(m.page), m.eventName, m.expected)' ]_vars

\* time since the call started
Elapsed == now - m.startTime

\* the timeout and pollInterval of the call are numbers, timeout >= 0, pollInterval > 0
ValidConfig ==
  /\ m.timeout.t = "num" /\ m.timeout.n >= 0
  /\ m.pollInterval.t = "num" /\ m.pollInterval.n > 0

\* no match in the log at the call, one appended at time t after the start with
\* t + pollInterval < timeout, no clear during the call, and the call has returned
C11_Case ==
  /\ Returned /\ ValidConfig
  /\ ~m.matchAtCall /\ m.matchAt >= 0 /\ ~m.clearedSince
  /\ (m.matchAt - m.startTime) + m.pollInterval.n < m.timeout.n

C11_Outcome ==
  /\ m.pass
  /\ Elapsed >= m.matchAt - m.startTime
  /\ Elapsed < m.timeout.n

\* C11 (as stated): if the log holds no match when toHaveFiredEvent starts, a match
\* is appended at time t and not cleared, and t + pollInterval < timeout, the call
\* returns pass=true, not earlier than t and before timeout has elapsed.
C11_LateMatchIsFound == C11_Case => C11_Outcome

\* C11 (amended): the same, provided every timer of the call fired at its due time.
C11_LateMatchIsFoundOnTime == (C11_Case /\ ~m.late) => C11_Outcome

\* the call slept, the match arrived during a suspension, a later scan found it
C11_Witness == C11_Case /\ ~m.late /\ m.sleeps >= 1 /\ m.pass

\* a returned call stays returned: no further scan, no suspension pending
NoScanAfterReturn ==
  [][ Returned => (m'.scans = m.scans /\ m'.sleeps = m.sleeps /\ m'.pc # "sleeping") ]_vars

\* C13 (as stated): for timeout >= 0 and pollInterval > 0 and every interleaving
\* with appends and clears, toHaveFiredEvent eventually returns, no later than
\* timeout + pollInterval after it started, and after it has returned it scans no
\* more and leaves no suspension pending.
C13_ReturnsWithinBound ==
  /\ (m.pc = "sleeping") ~> Returned
  /\ []((Returned /\ ValidConfig) => Elapsed <= m.timeout.n + m.pollInterval.n)
  /\ NoScanAfterReturn

\* C13 (amended): the same, the time bound holding provided every timer of the
\* call fired at its due time.
C13_ReturnsWithinBoundOnTime ==
  /\ (m.pc = "sleeping") ~> Returned
  /\ []((Returned /\ ValidConfig /\ ~m.late) => Elapsed <= m.timeout.n + m.pollInterval.n)
  /\ NoScanAfterReturn

\* a call that was suspended twice, saw a clear and an append, and returned on
\* time exactly timeout + pollInterval - 1 after its start
C13_Witness ==
  /\ Returned /\ ValidConfig /\ ~m.late
  /\ m.sleeps >= 2 /\ m.clearedSince /\ Len(EventsOf(m.page)) > 0
  /\ Elapsed = m.timeout.n

\* no event matching the call was in the log at any time during it
NoMatchDuringCall == ~m.matchAtCall /\ m.matchAt = -1

\* C12: if no matching event is in the log at any time during the call,
\* toHaveFiredEvent returns normally with pass=false, and not before timeout has
\* elapsed since it started.
C12_NoMatchFailsAtTimeout ==
  (Returned /\ m.timeout.t = "num" /\ NoMatchDuringCall) =>
    (~m.pass /\ Elapsed >= m.timeout.n)

\* a call that polled a log holding only other events until its timeout
C12_Witness ==
  /\ Returned /\ NoMatchDuringCall /\ ~m.pass
  /\ m.timeout = JNum(2) /\ m.scans >= 2 /\ Len(EventsOf(m.page)) > 0

\* C14: notToHaveFiredEvent is the run of toHaveFiredEvent with the boolean
\* negated: it adds no scan and no suspension, its pass is NOT the pass of
\* toHaveFiredEvent, and its message function is the same.
C14_NegatedResult ==
  [][ (m'.pc = "notReturned") =>
        /\ m'.notPass = ~m'.pass
        /\ NotResult(m').message = message(m')
        /\ (m.pc = "returned") =>
             (m'.pass = m.pass /\ m'.scans = m.scans /\ m'.sleeps = m.sleeps) ]_vars

\* a negated pass, after a call that polled
C14_Witness == m.pc = "notReturned" /\ m.sleeps >= 1 /\ m.pass /\ ~m.notPass

\* C15: notToHaveFiredEvent returns pass=true only after the full timeout has
\* elapsed since it started, and with no matching event seen at any scan.
C15_AbsenceOnlyAfterWindow ==
  (m.pc = "notReturned" /\ m.notPass /\ m.timeout.t = "num") =>
    (Elapsed >= m.timeout.n /\ ~m.sawMatch)

\* absence confirmed after polling through the whole window
C15_Witness ==
  m.pc = "notReturned" /\ m.notPass /\ m.timeout = JNum(2) /\ m.scans >= 2

\* C16: if the log already holds a matching event when notToHaveFiredEvent is
\* called and the log is not cleared, it returns pass=false, for every
\* timeout >= 0 and every pollInterval.
C16_PresentEventFailsNegation ==
  (m.pc = "notReturned" /\ m.matchAtCall /\ ~m.clearedSince /\ ValidConfig) =>
    ~m.notPass

\* C17: a call with a negative timeout does not produce an ordinary assertion
\* result: toHaveFiredEvent does not return pass=false and notToHaveFiredEvent
\* does not return pass=true.
C17_InvalidConfigIsUsageError ==
  (m.timeout.t = "num" /\ m.timeout.n < 0) =>
    /\ ~(m.pc = "returned" /\ ~m.pass)
    /\ ~(m.pc = "notReturned" /\ m.notPass)

\* config supplies a value for key: the key is there and its value is not undefined
Supplies(config, key) == ~IsNullish(config) /\ Get(config, key) # Undef

\* the value the call is to poll with: the supplied one, else the default
Effective(config, key) ==
  IF Supplies(config, key) THEN Get(config, key)
  ELSE IF key = "timeout" THEN JNum(DefaultTimeout) ELSE JNum(DefaultPollInterval)

\* C18: with config omitted, or a key of it missing or given as undefined,
\* toHaveFiredEvent polls with the default for that value (timeout 2000,
\* pollInterval 100); a supplied value overrides only its own default. So each
\* suspension lasts the effective pollInterval and the call does not give up
\* before the effective timeout.
C18_DefaultsFillMissing ==
  (m.pc # "idle") =>
    /\ m.timeout = Effective(m.config, "timeout")
    /\ m.pollInterval = Effective(m.config, "pollInterval")
    /\ (Returned /\ ~m.pass) => Elapsed >= Effective(m.config, "timeout").n

\* an event with the given name whose properties are the actual of the call
EventWith(name, i) ==
  [event |-> JStr(name), properties |-> call.actual, timestamp |-> JNum(7),
   distinct_id |-> Undef, extra |-> <<>>, oid |-> <<1, i>>]

\* C19: matchesProperties(actual, expected) is true for every actual, a mapping
\* or absent, when expected is absent or the empty mapping; so a scan without
\* expected properties stops at the first event with the right name.
C19_EmptyExpectedMatches ==
  (call.done /\ (IsNullish(call.expected) \/ call.expected = JObj(<<>>))) =>
    /\ call.result = TRUE
    /\ Find(<<EventWith("A", 1), EventWith("a", 2), EventWith("a", 3)>>, "a", call.expected)
         = <<EventWith("a", 2)>>

\* the empty mapping expected of an absent actual
C19_Witness ==
  call.done /\ call.expected = JObj(<<>>) /\ call.actual = Undef /\ call.result = TRUE

\* deep equality of two values: the same kind of value, arrays of equal length
\* pointwise, mappings with the same key set pointwise, absent only equal to absent
HasKey(v, k) == \E i \in 1..Len(Keys(v)) : Keys(v)[i] = k

RECURSIVE DeeplyEqual(_, _)
DeeplyEqual(a, b) ==
  /\ a.t = b.t
  /\ CASE a.t = "arr" -> /\ Len(a.a) = Len(b.a)
                         /\ \A i \in 1..Len(a.a) : DeeplyEqual(a.a[i], b.a[i])
       [] a.t = "obj" -> /\ \A i \in 1..Len(Keys(a)) : HasKey(b, Keys(a)[i])
                         /\ \A i \in 1..Len(Keys(b)) :
                              /\ HasKey(a, Keys(b)[i])
                              /\ DeeplyEqual(Get(a, Keys(b)[i]), Get(b, Keys(b)[i]))
       [] OTHER -> a = b

\* every key of expected is present in actual with a deeply equal value
ContainsAll(actual, expected) ==
  /\ actual.t = "obj"
  /\ \A i \in 1..Len(Keys(expected)) :
       /\ HasKey(actual, Keys(expected)[i])
       /\ DeeplyEqual(Get(actual, Keys(expected)[i]), Get(expected, Keys(expected)[i]))

\* C20: for every actual and every non-empty expected mapping, matchesProperties
\* is true exactly when every key of expected is present in actual with a deeply
\* equal value; extra keys of actual do not matter and an absent actual matches
\* no non-empty expected.
C20_SubsetSemantics ==
  (call.done /\ call.expected.t = "obj" /\ Len(Keys(call.expected)) > 0) =>
    call.result = ContainsAll(call.actual, call.expected)

\* C21: below the top level property values are compared for exact equality:
\* primitives by value and type, arrays by length and pointwise in order, nested
\* mappings by equal key sets and pointwise equal values, an array never equal
\* to a mapping, null and absent each equal only to themselves.
C21_ExactBelowTopLevel ==
  call.done =>
    /\ call.result = DeeplyEqual(call.a, call.b)
    /\ (call.a.t = "arr" /\ call.b.t = "obj") => call.result = FALSE
    /\ (IsNullish(call.a) \/ IsNullish(call.b)) => call.result = (call.a = call.b)

\* an actual nested mapping with one extra key is not equal to the expected one
C21_Witness ==
  /\ call.done /\ call.result = FALSE
  /\ call.a = Obj2("y", JNum(1), "z", JNum(2)) /\ call.b = Obj1("y", JNum(1))

\* the payload of the call has a batch field that is an array
HasBatchArray(payload) == payload.t = "obj" /\ Get(payload, "batch").t = "arr"

\* the name and the properties a raw event carries
NameIn(raw) == Or(Get(raw, "event"), Get(raw, "e"))
PropertiesIn(raw) ==
  IF HasKey(raw, "properties") THEN Get(raw, "properties")
  ELSE IF HasKey(raw, "p") THEN Get(raw, "p")
  ELSE JObj(<<>>)

\* events are, one for one and in order, the normalized raws: the name of each
\* raw that has one, and its properties or the empty mapping
OneForOne(events, raws) ==
  /\ Len(events) = Len(raws)
  /\ \A i \in 1..Len(raws) :
       /\ HasName(raws[i]) => events[i].event = NameIn(raws[i])
       /\ events[i].properties = PropertiesIn(raws[i])

\* C22: a payload whose batch field is an array of n raw events gives exactly n
\* events in the same order, the i-th with the name and the properties of the
\* i-th element, the properties being the empty mapping when it has none.
C22_BatchOneForOne ==
  (call.done /\ HasBatchArray(call.payload)) =>
    OneForOne(call.result.events, Get(call.payload, "batch").a)

\* the batch {event:'a', properties:{x:1}}, {event:'b'} gives 'a' with {x:1},
\* then 'b' with the empty mapping
C22_Witness ==
  /\ call.done
  /\ call.payload = Obj1("batch", JArr(<<RawEvA, RawEvB>>))
  /\ Len(call.result.events) = 2
  /\ call.result.events[1].event = JStr("a") /\ call.result.events[1].properties = PropsX1
  /\ call.result.events[2].event = JStr("b") /\ call.result.events[2].properties = JObj(<<>>)

\* the payload carries a name of its own at the top level
HasMarker(payload) == payload.t = "obj" /\ Truthy(NameIn(payload))

\* the names of the events, in order
NamesOf(events) == [i \in 1..Len(events) |-> events[i].event]

\* C23: one rule is applied per payload, in the order batch array, top-level
\* array, event/e marker, data: a batch array together with an event marker or a
\* data field gives exactly the batch elements, an event marker without a batch
\* array gives exactly one event even beside a data field, and no raw event is
\* counted twice.
C23_OneRulePerPayload ==
  call.done =>
    /\ HasBatchArray(call.payload) =>
         OneForOne(call.result.events, Get(call.payload, "batch").a)
    /\ (~HasBatchArray(call.payload) /\ HasMarker(call.payload)) =>
         (Len(call.result.events) = 1 /\ call.result.events[1].event = NameIn(call.payload))
    /\ \A i, j \in 1..Len(call.result.events) :
         i # j => call.result.events[i].oid # call.result.events[j].oid

\* a batch of two beside an event marker gave exactly the two batch elements
C23_Witness ==
  /\ call.done
  /\ call.payload = Obj2("batch", JArr(<<RawEvB, RawShort>>), "event", JStr("a"))
  /\ NamesOf(call.result.events) = <<JStr("b"), JStr("c")>>

\* the payload falls to the data rule: no batch array, not an array, no marker
FallsToData(payload) ==
  /\ payload.t = "obj"
  /\ ~HasBatchArray(payload) /\ ~HasMarker(payload)
  /\ HasKey(payload, "data")

\* C24: a payload that falls to the data rule gives the events of the batch rule
\* or the array rule applied to the value of data: data = [e1..en] gives n events
\* in order, and so does data = {batch: [e1..en]}.
C24_DataRecursesIntoRules ==
  (call.done /\ FallsToData(call.payload)) =>
    LET data == Get(call.payload, "data")
    IN /\ data.t = "arr" => OneForOne(call.result.events, data.a)
       /\ HasBatchArray(data) => OneForOne(call.result.events, Get(data, "batch").a)

\* the payload is one raw event without a name and nothing else
NamelessPayload(payload) ==
  /\ payload.t = "obj" /\ Len(Keys(payload)) > 0
  /\ ~HasMarker(payload)
  /\ ~HasKey(payload, "batch") /\ ~HasKey(payload, "data")

\* the raw events a payload holds, wherever it holds them
RawsOf(payload) ==
  IF HasBatchArray(payload) THEN Get(payload, "batch").a
  ELSE IF payload.t = "arr" THEN payload.a
  ELSE IF HasMarker(payload) THEN <<payload>>
  ELSE IF FallsToData(payload) /\ Get(payload, "data").t = "arr" THEN Get(payload, "data").a
  ELSE IF NamelessPayload(payload) THEN <<payload>>
  ELSE <<>>

\* C25: a raw event that has no event and no e field gives one event named
\* "unknown" in every shape: as an element of a batch, of a top-level array or
\* of data, and as the whole top-level payload; it is not dropped in any of them.
C25_OnePolicyForNameless ==
  (call.done /\ ~(FallsToData(call.payload) /\ Get(call.payload, "data").t # "arr")) =>
    LET raws == RawsOf(call.payload)
    IN /\ Len(call.result.events) = Len(raws)
       /\ \A i \in 1..Len(raws) :
            ~HasName(raws[i]) => call.result.events[i].event = JStr("unknown")

\* C26: a tracked request with an empty or absent body appends nothing, raises
\* no error, and is continued.
C26_EmptyBodyIsEmptyResult ==
  \A r \in Reqs :
    /\ [](/\ req[r].st # "rejected"
          /\ req[r].events = <<>> /\ req[r].n = 0
          /\ \A p \in Pages : log[p] = <<>>)
    /\ (req[r].st # "new") ~> (req[r].conts = 1)

\* a request to a tracked endpoint that waited at its await while the next one
\* was intercepted, now continued with nothing in the log
C26_Witness ==
  \E r1, r2 \in Reqs :
    /\ r1 < r2 /\ req[r2].behind > 0
    /\ req[r1].conts = 1 /\ req[r1].n = 0 /\ log[req[r1].page] = <<>>

\* the logged events that have the name
WithName(events, name) == SelectSeq(events, LAMBDA e : e.event = JStr(name))

\* C27: the failure message of toHaveFiredEvent reports the total number of
\* captured events and exactly one reason decided by the log: 'no events' iff the
\* log is empty; else 'properties did not match', listing the properties of every
\* event with the target name and the expected properties, iff some logged event
\* has the target name; else 'name mismatch', listing the captured names, none of
\* them the target.
C27_MessageCategory ==
  (Returned /\ ~m.pass) =>
    LET msg == message(m)
        events == EventsOf(m.page)
        named == WithName(events, m.eventName)
    IN /\ msg.total = Len(events)
       /\ msg.kind \in {"noEvents", "propertiesDidNotMatch", "nameDidNotMatch"}
       /\ msg.kind = "noEvents" <=> events = <<>>
       /\ msg.kind = "propertiesDidNotMatch" <=> named # <<>>
       /\ msg.kind = "propertiesDidNotMatch" =>
            /\ msg.listed = [i \in 1..Len(named) |-> named[i].properties]
            /\ msg.expected = m.expected
       /\ msg.kind = "nameDidNotMatch" =>
            /\ msg.names = NamesOf(events)
            /\ \A i \in 1..Len(msg.names) : msg.names[i] # JStr(m.eventName)

\* a failed call on a log of two events, one of them with the target name and
\* other properties: the message lists that one
C27_Witness ==
  /\ Returned /\ ~m.pass /\ m.scans >= 1
  /\ message(m).kind = "propertiesDidNotMatch"
  /\ message(m).total = 2 /\ Len(message(m).listed) = 1

\* C28: toHaveCapturedEvents(page, count) evaluates the log once, at the call and
\* without waiting: the call changes neither the clock, nor a log, nor a pending
\* handler; with count absent it passes iff the log holds at least one event, and
\* with count given (0 included) it passes iff the log holds exactly count events.
C28_CountAtCallTime ==
  [][ (call' # call) =>
        LET logged == Len(EventsOf(call'.page))
        IN /\ call'.fn = "toHaveCapturedEvents"
           /\ call'.pass = IF call'.count = Undef THEN logged >= 1
                            ELSE call'.count = JNum(logged)
           /\ UNCHANGED <<now, log, tracked, req, microtasks>> ]_vars

\* a call with count 0 passes on the empty log while a handler holding events is
\* still suspended
C28_Witness ==
  /\ call.fn = "toHaveCapturedEvents" /\ call.page = "P"
  /\ call.count = JNum(0) /\ call.pass
  /\ \E r \in Reqs : req[r].st = "awaiting" /\ req[r].events # <<>>

\* the URL holds the fragment at some position
HasFragment(url, fragment) ==
  \E i \in 1..Len(url) :
    \A k \in 1..Len(fragment) : i + k - 1 <= Len(url) /\ url[i + k - 1] = fragment[k]

IngestionFragments ==
  { <<"/","e","/">>, <<"/","c","a","p","t","u","r","e">>, <<"/","b","a","t","c","h">>,
    <<"/","s","/">> }

HasIngestionFragment(url) == \E fragment \in IngestionFragments : HasFragment(url, fragment)

\* the classifier's answer is the presence of an ingestion fragment
C29_AnswerIsFragment == call.done => call.result = HasIngestionFragment(call.url)

\* the classifier changes no state
C29_NoSideEffect ==
  [][ (call' # call) => UNCHANGED <<variant, routed, now, tracked, log, req, microtasks, held,
                                     history, cleared>> ]_vars

\* C29: isPostHogRequest is a pure total predicate on strings: for every URL,
\* well-formed or not, it returns a truth value and changes no state, it is true
\* exactly when the URL contains one of '/e/', '/capture', '/batch', '/s/', and
\* only requests for whose URL it is true append to the log.
C29_ClassifierGatesLog ==
  /\ []C29_AnswerIsFragment
  /\ C29_NoSideEffect
  /\ [](\A r \in Reqs :
          (req[r].events # <<>> \/ req[r].n > 0 \/ log[req[r].page] # <<>>)
            => isPostHogRequest(call.url))

\* the logged events that were captured from a request made on page p
AllLogged == UNION {Range(log[q]) : q \in Pages}
CapturedOn(p) == {e \in AllLogged : req[e.oid[1]].page = p}

\* C30: each tracked page owns its own log, created empty by the page fixture
\* before a request of the page can be intercepted; a request intercepted on a
\* page appends only to that page's log, clearCapturedEvents(P) empties P's log
\* and leaves every other log as it is, and a count assertion on a page counts
\* exactly the logged events captured on that page.
C30_LogPerPage ==
  /\ [](/\ routed \subseteq tracked
        /\ \A r \in Reqs : req[r].st # "new" => req[r].page \in tracked
        /\ \A p \in Pages : \A i \in 1..Len(log[p]) : req[log[p][i].oid[1]].page = p)
  /\ [][ /\ \A p \in tracked' \ tracked : log'[p] = <<>>
         /\ \A p \in Pages :
              prevClear'.page = p =>
                /\ p \in tracked => log'[p] = <<>>
                /\ \A q \in Pages \ {p} : log'[q] = log[q]
         /\ \A p \in Pages :
              Len(log'[p]) > Len(log[p]) => \A q \in Pages \ {p} : log'[q] = log[q]
         /\ (call' # call) =>
              call'.actualCount = Cardinality(CapturedOn(call'.page)) ]_vars

\* an assertion on Q for exactly one event passes while the log of P holds an
\* event of its own
C30_Witness ==
  /\ call.fn = "toHaveCapturedEvents" /\ call.page = "Q"
  /\ call.count = JNum(1) /\ call.pass
  /\ Len(log["Q"]) = 1 /\ Len(log["P"]) = 1
  /\ req[log["P"][1].oid[1]].page = "P"

\* the log of its page holds no event of request r
NothingLoggedOf(r) ==
  \A i \in 1..Len(log[req[r].page]) : log[req[r].page][i].oid[1] # r

\* C31: once clearCapturedEvents(page) has returned, no event of a request whose
\* interception began before the clear is in the page's log, then or at any later
\* time, whatever the position of that request's handler at the clear.
C31_ClearCutsInFlight ==
  \A r \in Reqs :
    []((prevClear.page = req[r].page /\ req[r].st # "new") => []NothingLoggedOf(r))

\* C32: the sequence returned by getCapturedEvents is a snapshot: a step of a
\* route handler or a clearCapturedEvents call leaves a sequence returned earlier
\* as it was, and the log changes only with a step of a route handler or a clear,
\* never through a change the test makes to a returned sequence.
C32_ReturnedIsSnapshot ==
  [][ /\ (held.st # "none" /\ (req' # req \/ prevClear'.page \in Pages))
          => HeldValue' = HeldValue
      /\ \A p \in Pages :
           log'[p] # log[p] => (req' # req \/ prevClear'.page = p) ]_vars

\* the handler steps leave a returned sequence as it was
C32_AppendsLeaveReturned ==
  [][ (held.st # "none" /\ req' # req) => HeldValue' = HeldValue ]_vars

\* the log changes only with a handler step or a clear
C32_LogNotChangedThroughReturned ==
  [][ \A p \in Pages : log'[p] # log[p] => (req' # req \/ prevClear'.page = p) ]_vars

\* a clear leaves a returned sequence as it was
C32_ClearLeavesReturned ==
  [][ (held.st # "none" /\ prevClear'.page \in Pages) => HeldValue' = HeldValue ]_vars

\* the events in P's log that came from request r
LoggedOf(r) == SelectSeq(log["P"], LAMBDA e : e.oid[1] = r)

SameEvents(es1, es2) ==
  /\ Len(es1) = Len(es2)
  /\ \A i \in 1..Len(es1) : SameContent(es1[i], es2[i])

\* C33: the capture path decodes both encodings of a body: a request that has
\* been continued has put the events of its document into the log, whether the
\* document was sent uncompressed or gzip-compressed, and the uncompressed and
\* the compressed request of the same document put the same events there.
C33_BothEncodingsDecoded ==
  /\ \A r \in Reqs : req[r].st = "continued" => LoggedOf(r) # <<>>
  /\ \A r1, r2 \in Reqs :
       (req[r1].st = "continued" /\ req[r2].st = "continued")
         => SameEvents(LoggedOf(r1), LoggedOf(r2))

\* the route('**/*') fixture decodes the uncompressed body
C33_WatcherDecodesPlain ==
  \A r \in Reqs : (variant = "watcher" /\ req[r].st = "continued" /\ r % 2 = 1)
                     => LoggedOf(r) # <<>>

\* the decompressing fixture decodes the compressed body
C33_GunzipDecodesGzip ==
  \A r \in Reqs : (variant = "gunzip" /\ req[r].st = "continued" /\ r % 2 = 0)
                     => LoggedOf(r) # <<>>

\* log'[p] is log[p] with events added at its end
Appended(p) ==
  /\ Len(log'[p]) >= Len(log[p])
  /\ SubSeq(log'[p], 1, Len(log[p])) = log[p]

\* C34: the log of a page changes only by an append made by the handler of a
\* tracked request and by clearCapturedEvents: a step that changes it is a clear
\* of the page or the step in which a handler suspended on a tracked request
\* pushes, and then the earlier events stay as they were; the handler of a request
\* to another URL, getCapturedEvents, toHaveFiredEvent and its suspensions,
\* notToHaveFiredEvent, toHaveCapturedEvents and message() leave every log as it was.
C34_LogFrame ==
  [][ /\ \A p \in Pages :
           log'[p] # log[p] =>
             \/ prevClear'.page = p /\ log'[p] = <<>>
             \/ /\ Appended(p)
                /\ \E r \in Reqs : /\ req[r].st = "awaiting" /\ req'[r].st = "continued"
                                   /\ req[r].page = p
      /\ (\E r \in Reqs : req[r].st = "new" /\ req'[r].st = "continued") => log' = log
      /\ (held' # held /\ prevClear'.page \notin Pages) => log' = log
      /\ (m' # m /\ req' = req /\ prevClear'.page \notin Pages) => log' = log
      /\ (call' # call) => log' = log ]_vars

\* the message of a failed call has been built on a log that holds events, an
\* array obtained from getCapturedEvents is held, and a request to another URL has
\* passed
C34_Witness ==
  /\ call.fn = "message" /\ call.result.kind = "propertiesDidNotMatch"
  /\ held.st = "alias" /\ m.pc = "notReturned"
  /\ \E r \in Reqs : req[r].st = "continued" /\ req[r].n = 0 /\ ~req[r].caught
                      /\ req[r].behind = 0
  /\ Len(log["P"]) = 2

\* the raw event has a value under the key
Given(raw, key) == ~IsNullish(Get(raw, key))

\* the value under key1 when the raw event has one, else the value under key2
\* when it has one, else dflt
FirstGiven(raw, key1, key2, dflt) ==
  IF Given(raw, key1) THEN Get(raw, key1)
  ELSE IF Given(raw, key2) THEN Get(raw, key2)
  ELSE dflt

ShorthandKeys == {"e", "p", "ts", "d"}

FieldByField(raw, event, clk) ==
  /\ event.event = FirstGiven(raw, "event", "e", JStr("unknown"))
  /\ event.properties = FirstGiven(raw, "properties", "p", JObj(<<>>))
  /\ event.timestamp = FirstGiven(raw, "timestamp", "ts", JNum(clk))
  /\ event.distinct_id = FirstGiven(raw, "distinct_id", "d", Undef)
  /\ \A i \in 1..Len(raw.kv) :
       raw.kv[i][1] \notin CanonicalKeys =>
         \E j \in 1..Len(event.extra) : event.extra[j] = raw.kv[i]
  /\ \A j \in 1..Len(event.extra) :
       /\ event.extra[j][1] \notin ShorthandKeys
       /\ \E i \in 1..Len(raw.kv) : raw.kv[i] = event.extra[j]

\* C35: normalizeEvent maps a raw event field by field: the name is the value
\* of event when the raw event has one, else that of e, else "unknown"; likewise
\* properties / p / empty mapping, timestamp / ts / capture instant and
\* distinct_id / d; every other top-level key is carried over with its value, and
\* none of e, p, ts, d appears in the normalized event.
C35_FieldByField == call.done => FieldByField(call.raw, call.result, now)

\* every canonical or shorthand value the raw event has is truthy
AllGivenTruthy(raw) ==
  \A i \in 1..Len(raw.kv) :
    (raw.kv[i][1] \in CanonicalKeys /\ ~IsNullish(raw.kv[i][2])) => Truthy(raw.kv[i][2])

\* the mapping holds for raw events whose given canonical values are all truthy
C35_TruthyFieldByField ==
  (call.done /\ AllGivenTruthy(call.raw)) => FieldByField(call.raw, call.result, now)

\* the last k events of the log of page p
LastOf(p, k) == SubSeq(log[p], Len(log[p]) - k + 1, Len(log[p]))

\* C36: the events extracted from a tracked request are in the log of its page
\* before route.continue() is issued for it: in the state in which the request is
\* released, the events its handler held are the last events of the log, and a
\* released request holds no event back (each of its events is in the log or was
\* in it when the page was cleared).
C36_LoggedBeforeContinue ==
  /\ [](\A r \in Reqs :
          req[r].conts >= 1 =>
            /\ req[r].events = <<>>
            /\ Cardinality({e \in Range(log[req[r].page]) \cup cleared : e.oid[1] = r})
                 = req[r].n)
  /\ [][ \A r \in Reqs :
           (req[r].conts = 0 /\ req'[r].conts = 1) =>
             LET p == req'[r].page
                 k == req'[r].n
             IN /\ k <= Len(log'[p])
                /\ \A i \in (Len(log'[p]) - k + 1)..Len(log'[p]) : log'[p][i].oid[1] = r
                /\ req[r].st = "awaiting" =>
                     /\ k = Len(req[r].events)
                     /\ SubSeq(log'[p], Len(log'[p]) - k + 1, Len(log'[p])) = req[r].events ]_vars

\* on the route('**/*') fixture a request with two events has been released
\* after another handler was invoked, and its events end the log
C36_Witness ==
  /\ variant = "watcher"
  /\ \E r \in Reqs :
       /\ req[r].conts = 1 /\ req[r].n = 2 /\ r > 1
       /\ Len(log[req[r].page]) >= 2
       /\ \A i \in 1..2 : LastOf(req[r].page, 2)[i].oid = <<r, i>>

\* no properties listed by the message satisfy the expected properties
ListedAllFail(msg, expected) ==
  \A i \in 1..Len(msg.listed) : ~matchesProperties(msg.listed[i], expected)

\* C37: the failure message of toHaveFiredEvent agrees with the result it
\* explains: whenever the call has returned pass=false, every event that
\* message() lists as a property mismatch fails matchesProperties against the
\* expected properties, whenever message() is called after the return.
C37_MessageAgreesWithResult ==
  (Returned /\ ~m.pass) => ListedAllFail(message(m), m.expected)

\* the same for the calls during which no matching event was in the log, neither
\* at the call nor appended during a suspension
C37_AgreesWhenNoMatchBeforeReturn ==
  (Returned /\ ~m.pass /\ ~m.matchAtCall /\ m.matchAt = -1)
    => ListedAllFail(message(m), m.expected)

C39_UntrackedPageDegrades ==
  /\ [](/\ "Q" \notin tracked
        /\ (held.st # "none" /\ held.page = "Q") => HeldValue = <<>>
        /\ (call.fn = "toHaveCapturedEvents" /\ call.page = "Q")
             => call.pass = (call.count = JNum(0))
        /\ (m.pc = "returned" /\ m.page = "Q")
             => /\ ~m.pass
                /\ message(m).kind = "noEvents"
                /\ m.timeout.t = "num" /\ now - m.startTime >= m.timeout.n
        /\ (call.fn = "message" /\ m.page = "Q") => call.result.kind = "noEvents")
  /\ [][ prevClear'.page = "Q" =>
           /\ UNCHANGED <<tracked, routed, log, held, req, microtasks, call, now>>
           /\ m'.pc = m.pc /\ m'.pass = m.pass /\ m'.foundEvent = m.foundEvent ]_vars

\* on the untracked page a call has polled, returned pass=false and built its
\* message while the log of the tracked page holds events, and the test holds the
\* sequence getCapturedEvents gave it
C39_Witness ==
  /\ m.pc = "returned" /\ m.page = "Q" /\ ~m.pass /\ m.sleeps >= 1
  /\ call.fn = "message" /\ call.result.kind = "noEvents"
  /\ held.st = "fresh" /\ held.page = "Q"
  /\ log["P"] # <<>>

====
